---- MODULE Spec2Model ----
(***************************************************************************)
(* py_trees blackboard: the Borg-style Blackboard store (set/get on top    *)
(* of Python attribute access) and the three adapter behaviours            *)
(* ClearBlackboardVariable, SetBlackboardVariable, CheckBlackboardVariable.*)
(*                                                                         *)
(* A Blackboard instance is a handle whose __dict__ refers to a dict       *)
(* object; dicts are kept in a small heap so that aliasing (one shared     *)
(* dict against a private copy) is a property of the model and not an      *)
(* assumption of it.  Attribute access follows Python's lookup: the        *)
(* instance dict first, then the functions defined on the class.           *)
(***************************************************************************)
EXTENDS Integers, Sequences, FiniteSets, TLC

VARIABLES dicts, handles, clear, setter, check, last

vars == <<dicts, handles, clear, setter, check, last>>

----------------------------------------------------------------------------
(* Bounds and value spaces *)

\* stored integers are 1..MaxVal
MaxVal == 1

\* Python's None
None == "None"

\* the payloads a caller may store: None and a few integers
Values == {None} \cup {ToString(i) : i \in 1..MaxVal}

\* the string names used as keys: an ordinary one and the two names that
\* are also methods of class Blackboard
Names == {"foo", "get", "set"}

\* names bound in the body of class Blackboard that set/get are reached by
ClassAttrs == {"set", "get"}

\* marker of a key that is not in a dict
Absent == "Absent"

\* outcomes of attribute access and of calls
AttributeError == "AttributeError"
TypeError == "TypeError"

BoundMethod(name) == "bound method " \o name

\* the dict object Blackboard.__shared_state
SharedState == "shared"

\* who constructs a Blackboard instance: client code and the three behaviours
Slots == {"client", "clear", "set", "check"}

\* the instances that outlive the call that made them and are read again:
\* the client's and the one CheckBlackboardVariable takes at construction
Holders == {"client", "check"}

\* the heap: the class-level dict plus one dict object per holder
DictIds == {SharedState} \cup Slots

EmptyDict == [n \in Names |-> Absent]

----------------------------------------------------------------------------
(* Python attribute access on an instance whose __dict__ is d *)

\* hasattr(obj, name)
HasAttr(d, name) == d[name] # Absent \/ name \in ClassAttrs

\* getattr(obj, name): the instance dict shadows the class's functions
GetAttr(d, name) ==
    IF d[name] # Absent THEN d[name]
    ELSE IF name \in ClassAttrs THEN BoundMethod(name)
    ELSE AttributeError

\* setattr(obj, name, value)
SetAttr(d, name, value) == [d EXCEPT ![name] = value]

\* (variant of delattr: the whole instance dict is emptied, a batch reset)
DelAttr_ClearsAll(d, name) ==
    IF d[name] # Absent THEN [raised |-> FALSE, dict |-> [n \in DOMAIN d |-> Absent]]
    ELSE [raised |-> TRUE, dict |-> d]

\* delattr(obj, name): only the instance dict can lose a key
DelAttr(d, name) ==
    IF d[name] # Absent THEN [raised |-> FALSE, dict |-> [d EXCEPT ![name] = Absent]]
    ELSE [raised |-> TRUE, dict |-> d]

----------------------------------------------------------------------------
(* class Blackboard *)

\* (variant of __init__: every instance starts from its own copy of the
\* class-level dict instead of aliasing it)
BlackboardInit_PrivateCopy(slot, ds) ==
    [ref |-> slot, dicts |-> [ds EXCEPT ![slot] = ds[SharedState]]]

\* Blackboard.__init__ for the instance made by slot: the dict its __dict__
\* refers to, and the heap afterwards
BlackboardInit(slot, ds) == [ref |-> SharedState, dicts |-> ds]

\* body of Blackboard.set on instance dict d
set(d, name, value, overwrite) ==
    IF ~overwrite /\ GetAttr(d, name) # AttributeError
    THEN [ret |-> "False", dict |-> d]
    ELSE [ret |-> "True", dict |-> SetAttr(d, name, value)]

\* body of Blackboard.get on instance dict d
get(d, name) ==
    IF GetAttr(d, name) # AttributeError THEN GetAttr(d, name) ELSE None

\* the expression blackboard.set(name, value, overwrite): the attribute
\* "set" is looked up on the instance and then called
CallSet(d, name, value, overwrite) ==
    IF GetAttr(d, "set") = BoundMethod("set")
    THEN set(d, name, value, overwrite)
    ELSE [ret |-> TypeError, dict |-> d]

\* the expression blackboard.get(name)
CallGet(d, name) ==
    IF GetAttr(d, "get") = BoundMethod("get")
    THEN get(d, name)
    ELSE TypeError

----------------------------------------------------------------------------
(* class CheckBlackboardVariable *)

Msg(text, name, v, e) == [text |-> text, name |-> name, v |-> v, e |-> e]

\* text of a message that was never written
NoMsg == Msg("", "", "", "")

\* what one update() leaves behind: the Status returned, the feedback
\* message written, and the instance dict afterwards
Outcome(status, text, name, v, e, d) ==
    [status |-> status, feedback_message |-> Msg(text, name, v, e), dict |-> d]

\* behaviours.Success.update, which ClearBlackboardVariable and
\* SetBlackboardVariable inherit unchanged: the Status it returns
SuccessUpdate == "SUCCESS"

\* (variant of update: a missing variable is waited for instead of failed)
CheckUpdate_WaitsWhenAbsent(d, c) ==
    IF ~HasAttr(d, c.variable_name)
    THEN Outcome("RUNNING", "did not exist", c.variable_name, "", "", d)
    ELSE IF c.expected_value = None
    THEN Outcome("SUCCESS", "exists on the blackboard (as required)",
                 c.variable_name, "", "", d)
    ELSE IF (GetAttr(d, c.variable_name) = c.expected_value) # c.invert
    THEN Outcome("SUCCESS", "", c.variable_name, "", "", d)
    ELSE Outcome("FAILURE", "", c.variable_name, "", "", d)

\* (variant of update: once a message has been written the earlier verdict
\* is returned again instead of reading the blackboard)
CheckUpdate_Cached(d, c) ==
    IF c.feedback_message.text \in {"exists on the blackboard (as required)",
                                    "matched expected value (as required)",
                                    "did not match expected value (as required)"}
    THEN [status |-> "SUCCESS", feedback_message |-> c.feedback_message, dict |-> d]
    ELSE IF c.feedback_message.text # ""
    THEN [status |-> "FAILURE", feedback_message |-> c.feedback_message, dict |-> d]
    ELSE IF ~HasAttr(d, c.variable_name)
    THEN Outcome("FAILURE", "did not exist", c.variable_name, "", "", d)
    ELSE IF c.expected_value = None
    THEN Outcome("SUCCESS", "exists on the blackboard (as required)",
                 c.variable_name, "", "", d)
    ELSE IF (GetAttr(d, c.variable_name) = c.expected_value) # c.invert
    THEN Outcome("SUCCESS", "matched expected value (as required)",
                 c.variable_name, "", "", d)
    ELSE Outcome("FAILURE", "did not match expected value (required otherwise)",
                 c.variable_name, "", "", d)

\* (variant of update: the invert flag is never consulted)
CheckUpdate_IgnoresInvert(d, c) ==
    IF ~HasAttr(d, c.variable_name)
    THEN Outcome("FAILURE", "did not exist", c.variable_name, "", "", d)
    ELSE IF c.expected_value = None \/ GetAttr(d, c.variable_name) = c.expected_value
    THEN Outcome("SUCCESS", "matched expected value (as required)",
                 c.variable_name, "", "", d)
    ELSE Outcome("FAILURE", "did not match expected value (required otherwise)",
                 c.variable_name, "", "", d)

\* (variant of update: a missing variable is created holding None, as a
\* defaulting accessor would do)
CheckUpdate_Defaulting(d, c) ==
    IF ~HasAttr(d, c.variable_name)
    THEN Outcome("FAILURE", "did not exist", c.variable_name, "", "",
                 SetAttr(d, c.variable_name, None))
    ELSE IF c.expected_value = None
    THEN Outcome("SUCCESS", "exists on the blackboard (as required)",
                 c.variable_name, "", "", d)
    ELSE IF (GetAttr(d, c.variable_name) = c.expected_value) # c.invert
    THEN Outcome("SUCCESS", "", c.variable_name, "", "", d)
    ELSE Outcome("FAILURE", "", c.variable_name, "", "", d)

\* CheckBlackboardVariable.update on instance dict d with configuration c
CheckUpdate(d, c) ==
    IF ~HasAttr(d, c.variable_name)
    THEN Outcome("FAILURE", "did not exist", c.variable_name, "", "", d)
    ELSE IF c.expected_value = None
    THEN Outcome("SUCCESS", "exists on the blackboard (as required)",
                 c.variable_name, "", "", d)
    ELSE LET value == GetAttr(d, c.variable_name)
             matched_expected == (value = c.expected_value)
         IN  IF c.invert
             THEN IF ~matched_expected
                  THEN Outcome("SUCCESS", "did not match expected value (as required)",
                               c.variable_name, value, c.expected_value, d)
                  ELSE Outcome("FAILURE", "matched expected value (required otherwise)",
                               c.variable_name, value, c.expected_value, d)
             ELSE IF matched_expected
                  THEN Outcome("SUCCESS", "matched expected value (as required)",
                               c.variable_name, value, c.expected_value, d)
                  ELSE Outcome("FAILURE", "did not match expected value (required otherwise)",
                               c.variable_name, value, c.expected_value, d)

----------------------------------------------------------------------------
(* State machine *)

\* the record of the call that ran last
Call(op, name, value, overwrite, ret) ==
    [op |-> op, name |-> name, value |-> value, overwrite |-> overwrite, ret |-> ret]

\* the dict a holder's Blackboard instance refers to
DictOf(slot) == dicts[handles[slot]]

\* the store as the class sees it
Store == dicts[SharedState]

\* The state after construction: an empty class-level dict, the client's
\* instance, and one behaviour of each kind.  The three behaviours of the
\* tree are configured for one variable_name, so that set, clear and check
\* meet on the same key; client code reaches every name.
Init ==
    /\ \E vn \in Names, sv \in Values, ke \in Values, ki \in BOOLEAN :
          /\ clear = [variable_name |-> vn]
          /\ setter = [variable_name |-> vn, variable_value |-> sv]
          /\ check = [variable_name |-> vn, expected_value |-> ke, invert |-> ki,
                      feedback_message |-> NoMsg]
    /\ LET c1 == BlackboardInit("client", [i \in DictIds |-> EmptyDict])
           c2 == BlackboardInit("check", c1.dicts)
       IN  /\ dicts = c2.dicts
           /\ handles = [s \in Holders |-> IF s = "client" THEN c1.ref ELSE c2.ref]
    /\ last = Call("construct", "", None, TRUE, None)

\* client code: blackboard = Blackboard()
NewBlackboard ==
    LET c == BlackboardInit("client", dicts)
    IN  /\ dicts' = c.dicts
        /\ handles' = [handles EXCEPT !["client"] = c.ref]
        /\ last' = Call("Blackboard", "", None, TRUE, None)
        /\ UNCHANGED <<clear, setter, check>>

\* client code: blackboard.set(name, value, overwrite)
Set(name, value, overwrite) ==
    LET r == CallSet(DictOf("client"), name, value, overwrite)
    IN  /\ dicts' = [dicts EXCEPT ![handles["client"]] = r.dict]
        /\ last' = Call("set", name, value, overwrite, r.ret)
        /\ UNCHANGED <<handles, clear, setter, check>>

\* client code: blackboard.get(name)
Get(name) ==
    /\ last' = Call("get", name, None, TRUE, CallGet(DictOf("client"), name))
    /\ UNCHANGED <<dicts, handles, clear, setter, check>>

\* ClearBlackboardVariable.initialise: a new instance, then delattr on it
ClearInitialise ==
    LET c == BlackboardInit("clear", dicts)
        r == DelAttr(c.dicts[c.ref], clear.variable_name)
    IN  /\ dicts' = [c.dicts EXCEPT ![c.ref] = r.dict]
        /\ last' = Call("Clear.initialise", clear.variable_name, None, TRUE, None)
        /\ UNCHANGED <<handles, clear, setter, check>>

\* SetBlackboardVariable.initialise: a new instance, then set(..., overwrite=True)
SetInitialise ==
    LET c == BlackboardInit("set", dicts)
        r == CallSet(c.dicts[c.ref], setter.variable_name, setter.variable_value, TRUE)
    IN  /\ dicts' = [c.dicts EXCEPT ![c.ref] = r.dict]
        /\ last' = Call("Set.initialise", setter.variable_name, setter.variable_value,
                        TRUE, IF r.ret = TypeError THEN TypeError ELSE None)
        /\ UNCHANGED <<handles, clear, setter, check>>

\* ClearBlackboardVariable.update (inherited)
ClearUpdate ==
    /\ last' = Call("Clear.update", clear.variable_name, None, TRUE, SuccessUpdate)
    /\ UNCHANGED <<dicts, handles, clear, setter, check>>

\* SetBlackboardVariable.update (inherited)
SetUpdate ==
    /\ last' = Call("Set.update", setter.variable_name, None, TRUE, SuccessUpdate)
    /\ UNCHANGED <<dicts, handles, clear, setter, check>>

\* CheckBlackboardVariable.update, on the instance taken at construction
CheckBlackboardUpdate ==
    LET r == CheckUpdate(DictOf("check"), check)
    IN  /\ check' = [check EXCEPT !.feedback_message = r.feedback_message]
        /\ dicts' = [dicts EXCEPT ![handles["check"]] = r.dict]
        /\ last' = Call("Check.update", check.variable_name, None, TRUE, r.status)
        /\ UNCHANGED <<handles, clear, setter>>

Next ==
    \/ NewBlackboard
    \/ \E name \in Names, value \in Values, overwrite \in BOOLEAN :
          Set(name, value, overwrite)
    \/ \E name \in Names : Get(name)
    \/ ClearInitialise
    \/ SetInitialise
    \/ ClearUpdate
    \/ SetUpdate
    \/ CheckBlackboardUpdate

Spec == Init /\ [][Next]_vars

----------------------------------------------------------------------------
(* Properties *)

\* the store as the client's instance and as the check's instance see it
ClientView == DictOf("client")
CheckView == DictOf("check")

\* C1: set/get round trip -- set(name, value, overwrite=True), and set with
\* overwrite=False on a name that is not in the store, returns True, and a
\* get(name) that follows immediately returns exactly that value, for every
\* name and value and whatever the store held before.
C1_SetGetRoundTrip ==
    [][ /\ (/\ last'.op = "set"
            /\ (last'.overwrite \/ ClientView[last'.name] = Absent))
           => last'.ret = "True"
        /\ (/\ last.op = "set"
            /\ last.ret = "True"
            /\ last'.op = "get"
            /\ last'.name = last.name)
           => last'.ret = last.value ]_vars

\* C2: no-overwrite set -- when name is already in the store (a stored None
\* included), set(name, v2, overwrite=False) returns False and leaves the
\* whole store unchanged.
C2_NoOverwriteSet ==
    [][ (/\ last'.op = "set"
         /\ ~last'.overwrite
         /\ ClientView[last'.name] # Absent)
        => (last'.ret = "False" /\ dicts' = dicts) ]_vars

\* C3: get does not conflate absence with a stored None -- the result of
\* get(name) where name is not in the store differs from the result get(name)
\* gives where name holds None.
C3_GetDistinguishesAbsent ==
    (last.op = "get" /\ ClientView[last.name] = Absent)
    => last.ret # CallGet(SetAttr(ClientView, last.name, None), last.name)

C5_ClearIdempotentTotal ==
    [][ last'.op = "Clear.initialise"
        => /\ last'.ret = None
           /\ CheckView'[clear.variable_name] = Absent
           /\ ~HasAttr(CheckView', clear.variable_name)
           /\ (CheckView[clear.variable_name] = Absent => dicts' = dicts) ]_vars

\* C6: CheckBlackboardVariable.update on a name that is not in the store
\* returns FAILURE, for both values of invert and expected_value set or not.
C6_AbsentIsFailure ==
    (last.op = "Check.update" /\ CheckView[check.variable_name] = Absent)
    => last.ret = "FAILURE"

\* C7: equality/inversion table -- with the variable present and
\* expected_value set, update returns SUCCESS iff (stored value =
\* expected_value) XOR invert, and FAILURE otherwise.  (Present is taken
\* as update's own test; the value is the one attribute lookup yields,
\* which for a name in the store is the stored value.)
C7_EqualityInversionTable ==
    (/\ last.op = "Check.update"
     /\ HasAttr(CheckView, check.variable_name)
     /\ check.expected_value # None)
    => /\ last.ret \in {"SUCCESS", "FAILURE"}
       /\ CheckView[check.variable_name] # Absent
          => GetAttr(CheckView, check.variable_name) = CheckView[check.variable_name]
       /\ (last.ret = "SUCCESS")
          <=> ((GetAttr(CheckView, check.variable_name) = check.expected_value)
               # check.invert)

\* C7 witness: an inverted check on a stored value that differs from the
\* expected one has just returned SUCCESS.
C7_Witness ==
    /\ last.op = "Check.update"
    /\ check.invert
    /\ check.expected_value # None
    /\ CheckView[check.variable_name] \notin {Absent, check.expected_value}
    /\ last.ret = "SUCCESS"

\* C8: presence-only check -- with expected_value unset, update returns
\* SUCCESS iff the name is in the store, for both values of invert and every
\* stored value (None included).
C8_PresenceOnly ==
    (last.op = "Check.update" /\ check.expected_value = None)
    => ((last.ret = "SUCCESS") <=> (CheckView[check.variable_name] # Absent))

\* C9: CheckBlackboardVariable is a pure predicate -- update, on every
\* branch and in every store state, leaves every dict (names and values)
\* and every instance as it was.
C9_CheckIsPure ==
    [][ last'.op = "Check.update" => (dicts' = dicts /\ handles' = handles) ]_vars

\* C9 witness: update has just taken the absent branch while other names
\* are in the store.
C9_Witness ==
    /\ last.op = "Check.update"
    /\ last.ret = "FAILURE"
    /\ check.feedback_message.text = "did not exist"
    /\ CheckView[check.variable_name] = Absent
    /\ \E n \in Names : CheckView[n] # Absent

\* C10: SetBlackboardVariable.initialise always overwrites -- after it runs
\* the store holds variable_name with exactly variable_value, whatever the
\* name held before and whoever wrote in between.
C10_SetAlwaysOverwrites ==
    last.op = "Set.initialise"
    => /\ last.ret = None
       /\ ClientView[setter.variable_name] = setter.variable_value

\* C11: no adapter ever reports RUNNING -- update of ClearBlackboardVariable
\* and of SetBlackboardVariable returns SUCCESS whatever the store holds and
\* whether or not the key exists, and update of CheckBlackboardVariable
\* returns only SUCCESS or FAILURE.
C11_NeverRunning ==
    /\ last.op \in {"Clear.update", "Set.update"} => last.ret = "SUCCESS"
    /\ last.op = "Check.update" => last.ret \in {"SUCCESS", "FAILURE"}

\* C11 witness: a check on a variable that is not there has just returned,
\* the case in which a blocking behaviour would report RUNNING.
C11_Witness ==
    /\ last.op = "Check.update"
    /\ ~HasAttr(CheckView, check.variable_name)
    /\ last.ret = "FAILURE"

\* the stored payloads that are integers; None, a bound method and an
\* integer are pairwise of different types
Ints == {ToString(i) : i \in 1..MaxVal}

\* C12: the core never raises -- get, set, Clear.initialise and Check.update
\* never fail on a name that is not in the store, and Check.update always
\* completes with a Status, treating a stored value that cannot be compared
\* meaningfully with expected_value as not equal (FAILURE, or SUCCESS under
\* invert).
C12_NeverRaises ==
    [][ /\ (/\ last'.op \in {"get", "set", "Clear.initialise", "Check.update"}
            /\ ClientView[last'.name] = Absent)
           => last'.ret \notin {TypeError, AttributeError}
        /\ last'.op = "Check.update"
           => last'.ret \in {"SUCCESS", "FAILURE", "RUNNING"}
        /\ (/\ last'.op = "Check.update"
            /\ HasAttr(CheckView, check.variable_name)
            /\ check.expected_value \in Ints
            /\ GetAttr(CheckView, check.variable_name) \notin Ints)
           => last'.ret = (IF check.invert THEN "SUCCESS" ELSE "FAILURE") ]_vars

\* the verdict of a check as a function of an instance dict and the fixed
\* configuration alone: presence as update tests it, then the comparison
Decision(d, c) ==
    IF ~HasAttr(d, c.variable_name) THEN "FAILURE"
    ELSE IF c.expected_value = None THEN "SUCCESS"
    ELSE IF (GetAttr(d, c.variable_name) = c.expected_value) # c.invert THEN "SUCCESS"
    ELSE "FAILURE"

C14_Framing ==
    [][ \A i \in DictIds, n \in Names :
            dicts'[i][n] # dicts[i][n]
            => /\ last'.op \in {"set", "Set.initialise", "Clear.initialise"}
               /\ last'.name = n ]_vars

\* C14 witness: Clear.initialise has just run and removed its key, while
\* another name is still in the store.
C14_Witness ==
    /\ last.op = "Clear.initialise"
    /\ CheckView[clear.variable_name] = Absent
    /\ \E n \in Names : n # clear.variable_name /\ CheckView[n] # Absent

\* C15: diagnostics -- after every Check.update, on every branch, the
\* feedback message records both the observed value of the variable and
\* the expected value.
C15_FeedbackRecordsBoth ==
    last.op = "Check.update"
    => /\ check.feedback_message.v = GetAttr(CheckView, check.variable_name)
       /\ check.feedback_message.e = check.expected_value

\* C16: presence is consistent and exact -- in every reachable state and
\* for every name, the three presence tests (hasattr as update uses it,
\* set with overwrite=False returning False, get returning the stored
\* value) agree with each other and hold exactly when the name was stored
\* by a set and not cleared since.
C16_PresenceExact ==
    \A n \in Names :
        LET stored == Store[n] # Absent
        IN  /\ HasAttr(CheckView, n) <=> stored
            /\ \A v \in Values :
                   (CallSet(ClientView, n, v, FALSE).ret = "False") <=> stored
            /\ stored => CallGet(ClientView, n) = Store[n]

----------------------------------------------------------------------------
(* The same statements away from the class's own names.  A name is ordinary *)
(* when class Blackboard binds nothing under it; an instance dict is        *)
(* unshadowed when it holds no key that hides one of the class's methods.   *)

Ordinary(name) == name \notin ClassAttrs

Unshadowed(d) == \A m \in ClassAttrs : d[m] = Absent

\* C1 for an ordinary name on an unshadowed store
C1_Unshadowed ==
    [][ (/\ last'.op = "set"
         /\ Ordinary(last'.name)
         /\ Unshadowed(ClientView)
         /\ (last'.overwrite \/ ClientView[last'.name] = Absent))
        => /\ last'.ret = "True"
           /\ CallGet(ClientView', last'.name) = last'.value ]_vars

\* C2 on an unshadowed store
C2_Unshadowed ==
    [][ (/\ last'.op = "set"
         /\ ~last'.overwrite
         /\ Unshadowed(ClientView)
         /\ ClientView[last'.name] # Absent)
        => (last'.ret = "False" /\ dicts' = dicts) ]_vars

\* C5 for an ordinary variable_name
C5_Ordinary ==
    [][ (last'.op = "Clear.initialise" /\ Ordinary(clear.variable_name))
        => /\ last'.ret = None
           /\ CheckView'[clear.variable_name] = Absent
           /\ ~HasAttr(CheckView', clear.variable_name)
           /\ (CheckView[clear.variable_name] = Absent => dicts' = dicts) ]_vars

\* C6 for an ordinary variable_name
C6_Ordinary ==
    (/\ last.op = "Check.update"
     /\ Ordinary(check.variable_name)
     /\ CheckView[check.variable_name] = Absent)
    => last.ret = "FAILURE"

\* C8 for an ordinary variable_name
C8_Ordinary ==
    (/\ last.op = "Check.update"
     /\ Ordinary(check.variable_name)
     /\ check.expected_value = None)
    => ((last.ret = "SUCCESS") <=> (CheckView[check.variable_name] # Absent))

\* C10 when the name "set" is not in the store as initialise starts
C10_Unshadowed ==
    [][ (last'.op = "Set.initialise" /\ ClientView["set"] = Absent)
        => /\ last'.ret = None
           /\ ClientView'[setter.variable_name] = setter.variable_value ]_vars

\* C12 while no key hides one of the class's methods
C12_Unshadowed ==
    [][ /\ (/\ last'.op \in {"get", "set", "Clear.initialise", "Check.update"}
            /\ Unshadowed(ClientView)
            /\ ClientView[last'.name] = Absent)
           => last'.ret \notin {TypeError, AttributeError}
        /\ last'.op = "Check.update"
           => last'.ret \in {"SUCCESS", "FAILURE", "RUNNING"}
        /\ (/\ last'.op = "Check.update"
            /\ HasAttr(CheckView, check.variable_name)
            /\ check.expected_value \in Ints
            /\ GetAttr(CheckView, check.variable_name) \notin Ints)
           => last'.ret = (IF check.invert THEN "SUCCESS" ELSE "FAILURE") ]_vars

\* C15 on the two branches that compare the value
C15_CompareBranches ==
    (/\ last.op = "Check.update"
     /\ HasAttr(CheckView, check.variable_name)
     /\ check.expected_value # None)
    => /\ check.feedback_message.v = GetAttr(CheckView, check.variable_name)
       /\ check.feedback_message.e = check.expected_value

\* C16 for ordinary names while no key hides one of the class's methods
C16_Ordinary ==
    \A n \in Names :
        (Ordinary(n) /\ Unshadowed(ClientView))
        => LET stored == Store[n] # Absent
           IN  /\ HasAttr(CheckView, n) <=> stored
               /\ \A v \in Values :
                      (CallSet(ClientView, n, v, FALSE).ret = "False") <=> stored
               /\ stored => CallGet(ClientView, n) = Store[n]

====
